---- MODULE Spec2Model ----
(***************************************************************************)
(* Model of discord_watcher.py: the announcement parser, the identity      *)
(* normalizer, the match resolver, the tracking registry REG and the       *)
(* reconciliation loop poll_loop, with the on_message and on_ready         *)
(* handlers.  Text is modelled as sequences of one-character strings.      *)
(***************************************************************************)
EXTENDS Integers, Sequences, FiniteSets, TLC

\* ------------------------------------------------------------------------
\* Bounds of the model
\* ------------------------------------------------------------------------
MaxNormLen == 4
MaxToks == 5
MaxEntries == 2
MaxFetches == 3
MaxCands == 2

\* ------------------------------------------------------------------------
\* Text helpers (Python str / re primitives)
\* ------------------------------------------------------------------------
LowerAlpha == <<"a","b","c","d","e","f","g","h","i","j","k","l","m",
                "n","o","p","q","r","s","t","u","v","w","x","y","z">>
UpperAlpha == <<"A","B","C","D","E","F","G","H","I","J","K","L","M",
                "N","O","P","Q","R","S","T","U","V","W","X","Y","Z">>

\* str.lower() on one character
LowerChar(c) ==
  IF \E i \in 1..26 : UpperAlpha[i] = c
  THEN LowerAlpha[CHOOSE i \in 1..26 : UpperAlpha[i] = c]
  ELSE c

\* str.lower()
Lower(s) == [i \in 1..Len(s) |-> LowerChar(s[i])]

\* whitespace as str.strip() and the regex class \s see it
IsSpace(c) == c \in {" ", "\t", "\n", "\r"}

\* line boundaries of str.splitlines()
IsLineBreak(c) == c \in {"\n", "\r"}

SetMin(S) == CHOOSE x \in S : \A y \in S : x <= y
SetMax(S) == CHOOSE x \in S : \A y \in S : x >= y

\* str.strip()
Strip(s) ==
  LET ink == {i \in 1..Len(s) : ~IsSpace(s[i])}
  IN IF ink = {} THEN <<>> ELSE SubSeq(s, SetMin(ink), SetMax(ink))

\* str.startswith(prefix)
StartsWith(s, prefix) ==
  Len(s) >= Len(prefix) /\ SubSeq(s, 1, Len(prefix)) = prefix

\* the substring test "needle in hay"
Contains(hay, needle) ==
  \E i \in 1..(Len(hay) - Len(needle) + 1) :
     SubSeq(hay, i, i + Len(needle) - 1) = needle

\* ------------------------------------------------------------------------
\* normalize (Identity Normalizer)
\* ------------------------------------------------------------------------
\* the class [a-z \-'.] of the first re.sub
AllowedChar(c) ==
  \/ \E i \in 1..26 : LowerAlpha[i] = c
  \/ c \in {" ", "-", "'", "."}

\* re.sub(r"[^a-z \-'.]", " ", s)
ReplaceDisallowed(s) ==
  [i \in 1..Len(s) |-> IF AllowedChar(s[i]) THEN s[i] ELSE " "]

\* re.sub(r"\s+", " ", s): every maximal whitespace run becomes one space
RECURSIVE CollapseFrom(_, _)
CollapseFrom(s, i) ==
  IF i > Len(s) THEN <<>>
  ELSE IF ~IsSpace(s[i]) THEN <<s[i]>> \o CollapseFrom(s, i + 1)
  ELSE IF i > 1 /\ IsSpace(s[i - 1]) THEN CollapseFrom(s, i + 1)
  ELSE <<" ">> \o CollapseFrom(s, i + 1)

CollapseSpaces(s) == CollapseFrom(s, 1)

\* the text the first statement of normalize leaves: (s or "").strip().lower()
NormTrim(s) == Lower(Strip(s))

normalize(s) == CollapseSpaces(ReplaceDisallowed(NormTrim(s)))

\* ------------------------------------------------------------------------
\* extract_bet (Announcement Parser)
\* ------------------------------------------------------------------------
\* str.splitlines(): "\r\n" counts as one line boundary
RECURSIVE SplitFrom(_, _, _)
SplitFrom(s, i, cur) ==
  IF i > Len(s) THEN (IF cur = <<>> THEN <<>> ELSE <<cur>>)
  ELSE IF IsLineBreak(s[i])
       THEN LET nxt == IF s[i] = "\r" /\ i < Len(s) /\ s[i + 1] = "\n"
                       THEN i + 2 ELSE i + 1
            IN <<cur>> \o SplitFrom(s, nxt, <<>>)
       ELSE SplitFrom(s, i + 1, Append(cur, s[i]))

SplitLines(s) == SplitFrom(s, 1, <<>>)

NonEmptyLine(l) == l # <<>>

\* lines = [l.strip() for l in msg.splitlines() if l.strip()]
BetLines(msg) ==
  LET raw == SplitLines(msg)
  IN SelectSeq([i \in 1..Len(raw) |-> Strip(raw[i])], NonEmptyLine)

\* the literal of the pattern, compared under re.I
BetPlacedLower == <<"b","e","t"," ","p","l","a","c","e","d",":">>
VsLower == <<"v","s">>

\* the literal "Bet placed:" matches at index p of the line (re.I)
LitAt(line, p) ==
  /\ p >= 1
  /\ p + Len(BetPlacedLower) - 1 <= Len(line)
  /\ Lower(SubSeq(line, p, p + Len(BetPlacedLower) - 1)) = BetPlacedLower

\* length of the whitespace run that starts at index i
SpaceRun(line, i) ==
  LET non == {j \in i..Len(line) : ~IsSpace(line[j])}
  IN IF i > Len(line) THEN 0
     ELSE IF non = {} THEN Len(line) - i + 1
     ELSE SetMin(non) - i

\* \s+vs\s+(.+)$ matches from index i to the end of the line
TailMatches(line, i) ==
  LET r == SpaceRun(line, i)
      v == i + r
      w == SpaceRun(line, v + 2)
  IN /\ r >= 1
     /\ v + 1 <= Len(line)
     /\ Lower(SubSeq(line, v, v + 1)) = VsLower
     /\ w >= 1
     /\ (v + 2 + w <= Len(line) \/ w >= 2)

\* first index of group 2 when the tail matches from index i: the second
\* \s+ is greedy and gives back one character only if nothing would be left
Group2Start(line, i) ==
  LET v == i + SpaceRun(line, i)
      w == SpaceRun(line, v + 2)
  IN IF v + 2 + w <= Len(line) THEN v + 2 + w ELSE Len(line)

\* the ends group 1 may take when it starts at index start
Group1Ends(line, start) ==
  {e \in start..Len(line) : TailMatches(line, e + 1)}

\* a greedy group 1, (.+), would take the longest
Group1EndGreedy(line, start) == SetMax(Group1Ends(line, start))

\* (.+?) is lazy: the shortest group 1 after which the tail matches
Group1End(line, start) == SetMin(Group1Ends(line, start))

\* \s* after the literal is greedy: the longest run of whitespace from
\* index q after which group 1 and the tail still match
LeadSpaces(line, q) ==
  SetMax({k \in 0..SpaceRun(line, q) : Group1Ends(line, q + k) # {}})

\* the match starts re.search can use, leftmost first
MatchStarts(line) ==
  {p \in 1..Len(line) :
     /\ LitAt(line, p)
     /\ \E k \in 0..SpaceRun(line, p + Len(BetPlacedLower)) :
           Group1Ends(line, p + Len(BetPlacedLower) + k) # {}}

NoBet == [ok |-> FALSE]

\* re.search(r"Bet placed:\s*(.+?)\s+vs\s+(.+)$", line, re.I)
ReSearchBet(line) ==
  IF MatchStarts(line) = {} THEN NoBet
  ELSE LET p  == SetMin(MatchStarts(line))
           q  == p + Len(BetPlacedLower)
           g1 == q + LeadSpaces(line, q)
           e  == Group1End(line, g1)
       IN [ok   |-> TRUE,
           home |-> SubSeq(line, g1, e),
           away |-> SubSeq(line, Group2Start(line, e + 1), Len(line))]

\* the value the loop over lines[1:] leaves for one key: the last line
\* whose lowercase text starts with "<key>=" wins; ln.split("=",1)[1]
KeyValue(lines, key) ==
  LET hits == {i \in 2..Len(lines) : StartsWith(Lower(lines[i]), key)}
  IN IF hits = {} THEN <<>>
     ELSE SubSeq(lines[SetMax(hits)], Len(key) + 1, Len(lines[SetMax(hits)]))

SideKey  == <<"s","i","d","e","=">>
OddsKey  == <<"o","d","d","s","=">>
StakeKey == <<"s","t","a","k","e","=">>
StartKey == <<"s","t","a","r","t","=">>

extract_bet(msg) ==
  LET lines == BetLines(msg)
  IN IF lines = <<>> THEN NoBet
     ELSE LET m1 == ReSearchBet(lines[1])
          IN IF ~m1.ok THEN NoBet
             ELSE [ok     |-> TRUE,
                   home   |-> m1.home,
                   away   |-> m1.away,
                   side   |-> KeyValue(lines, SideKey),
                   odds   |-> KeyValue(lines, OddsKey),
                   stake  |-> KeyValue(lines, StakeKey),
                   starts |-> KeyValue(lines, StartKey)]

\* ------------------------------------------------------------------------
\* resolve_match_id (Match Resolver)
\* ------------------------------------------------------------------------
Digits == <<"0","1","2","3","4","5","6","7","8","9">>
IsDigit(c) == \E i \in 1..10 : Digits[i] = c
DigitVal(c) == (CHOOSE i \in 1..10 : Digits[i] = c) - 1

NoTime == [ok |-> FALSE, hours |-> 0, aware |-> FALSE]

\* dtparse.parse on the timestamp texts of the model: "dThh" is hour hh of
\* day d without a zone, "dThhZ" the same instant with a zone; any other
\* text makes the parser raise
ParseTime(t) ==
  IF /\ Len(t) \in {4, 5}
     /\ IsDigit(t[1]) /\ t[2] = "T" /\ IsDigit(t[3]) /\ IsDigit(t[4])
     /\ 10 * DigitVal(t[3]) + DigitVal(t[4]) < 24
     /\ (Len(t) = 5 => t[5] = "Z")
  THEN [ok    |-> TRUE,
        hours |-> 24 * DigitVal(t[1]) + 10 * DigitVal(t[3]) + DigitVal(t[4]),
        aware |-> Len(t) = 5]
  ELSE NoTime

Abs(x) == IF x < 0 THEN -x ELSE x
Max0(x) == IF x < 0 THEN 0 ELSE x

\* timedelta.days of (mt - st): whole days, rounded towards minus infinity
DeltaDays(mt, st) == (mt.hours - st.hours) \div 24

\* the try block of the scoring: a time that does not parse, or a
\* subtraction of a zoned and an unzoned time, raises and adds nothing
TimeBonus(starts_iso, start_time) ==
  LET st == ParseTime(starts_iso)
      mt == ParseTime(start_time)
  IN IF starts_iso = <<>> \/ start_time = <<>> THEN 0
     ELSE IF ~mt.ok \/ ~st.ok \/ mt.aware # st.aware THEN 0
     ELSE Max0(5 - Abs(DeltaDays(mt, st)))

NotStartedWord == <<"n","o","t"," ","s","t","a","r","t","e","d">>
ScheduledWord  == <<"s","c","h","e","d","u","l","e","d">>
InProgressWord == <<"i","n"," ","p","r","o","g","r","e","s","s">>
LiveWord       == <<"l","i","v","e">>

StatusBonus(status) ==
  IF \E k \in {NotStartedWord, ScheduledWord, InProgressWord, LiveWord} :
        Contains(Lower(status), k)
  THEN 5 ELSE 0

\* the name test accepting a candidate that carries one announced name
EligibleEither(h, a, m) ==
  LET p1 == normalize(m.player1)
      p2 == normalize(m.player2)
  IN /\ p1 # <<>> /\ p2 # <<>>
     /\ \/ Contains(p1, h) \/ Contains(p2, a)
        \/ Contains(p2, h) \/ Contains(p1, a)

\* the name test of the candidate loop
Eligible(h, a, m) ==
  LET p1 == normalize(m.player1)
      p2 == normalize(m.player2)
  IN /\ p1 # <<>> /\ p2 # <<>>
     /\ \/ Contains(p1, h) /\ Contains(p2, a)
        \/ Contains(p2, h) /\ Contains(p1, a)

CandidateScore(starts_iso, m) ==
  10 + TimeBonus(starts_iso, m.start_time) + StatusBonus(m.status)

\* a later candidate replacing the best one also with an equal score
BetterOrEqual(score, best_score) == score >= best_score

\* a later candidate replaces the best one only with a higher score
Better(score, best_score) == score > best_score

\* the candidate loop from index i on; best = 0 stands for None
RECURSIVE BestFrom(_, _, _, _, _, _)
BestFrom(items, i, h, a, starts_iso, acc) ==
  IF i > Len(items) THEN acc
  ELSE IF ~Eligible(h, a, items[i])
       THEN BestFrom(items, i + 1, h, a, starts_iso, acc)
       ELSE LET score == CandidateScore(starts_iso, items[i])
            IN IF Better(score, acc.best_score)
               THEN BestFrom(items, i + 1, h, a, starts_iso,
                             [best |-> i, best_score |-> score])
               ELSE BestFrom(items, i + 1, h, a, starts_iso, acc)

NoId == ""

\* resolve_match_id after the search request has returned data; the
\* result NoId stands for None
resolve_match_id(home, away, starts_iso, data) ==
  IF ~data.isList THEN NoId
  ELSE LET acc == BestFrom(data.items, 1, normalize(home), normalize(away),
                           starts_iso, [best |-> 0, best_score |-> -1])
       IN IF acc.best = 0 THEN NoId ELSE data.items[acc.best].id

\* ------------------------------------------------------------------------
\* get_live (provider live state)
\* ------------------------------------------------------------------------
FinalWords == { <<"f","i","n","i","s","h","e","d">>,
                <<"e","n","d","e","d">>,
                <<"c","o","m","p","l","e","t","e","d">>,
                <<"f","i","n","a","l">> }

ScoreSep == <<" ","|"," ">>

RECURSIVE JoinParts(_)
JoinParts(parts) ==
  IF parts = <<>> THEN <<>>
  ELSE IF Len(parts) = 1 THEN parts[1]
  ELSE parts[1] \o ScoreSep \o JoinParts(Tail(parts))

\* get_live after the live request has returned data
get_live(data) ==
  LET status_text == Strip(data.status)
  IN [status_text |-> status_text,
      score_text  |-> JoinParts(SelectSeq(<<data.sets, data.games, data.point>>,
                                          NonEmptyLine)),
      is_final    |-> Lower(status_text) \in FinalWords]

\* ------------------------------------------------------------------------
\* Inputs of the handlers
\* ------------------------------------------------------------------------
\* message texts ("*" stands for the megaphone character of the cards)
AnnStar  == <<"*","B","e","t"," ","p","l","a","c","e","d",":"," ","a","l"," ","v","s"," ","b","o","\n","s","t","a","r","t","=","1","T","0","9","Z">>
AnnLower == <<"b","e","t"," ","p","l","a","c","e","d",":"," ","c","y"," ","v","s"," ","d","i">>
AnnPlain == <<"B","e","t"," ","p","l","a","c","e","d",":"," ","c","y"," ","v","s"," ","d","i">>
ChatText == <<"h","i">>

\* an inbound discord.Message as on_message reads it
Msg(in_channel, bot, webhook, content) ==
  [in_channel |-> in_channel, bot |-> bot, webhook |-> webhook,
   content |-> content]

Messages ==
  { Msg(TRUE, TRUE, TRUE, AnnStar),     \* a webhook's announcement
    Msg(TRUE, FALSE, FALSE, AnnStar),   \* a user's announcement
    Msg(TRUE, FALSE, FALSE, AnnPlain),  \* a user's, no candidate has its names
    Msg(TRUE, FALSE, FALSE, AnnLower),  \* the same with a lowercase literal
    Msg(TRUE, TRUE, FALSE, AnnStar),    \* a bot's message, such as a card
    Msg(FALSE, FALSE, FALSE, AnnPlain), \* an announcement in another channel
    Msg(TRUE, FALSE, FALSE, ChatText) } \* other talk

Candidate(id, p1, p2, st, status) ==
  [id |-> id, player1 |-> p1, player2 |-> p2, start_time |-> st,
   status |-> status]

CandAlBo    == Candidate("m1", <<"A","l"," ","S","m","i","t","h">>, <<"B","o"," ","J","o","n","e","s">>, <<"1","T","0","9","Z">>, <<"S","c","h","e","d","u","l","e","d">>)
CandSwapped == Candidate("m2", <<"b","o"," ","j","o","n","e","s">>, <<"e","d"," ","s","m","i","t","h">>, <<>>, <<"F","i","n","i","s","h","e","d">>)
CandOther   == Candidate("m9", <<"C","y">>, <<"D","e">>, <<"1","T","0","9","Z">>, <<"l","i","v","e">>)

ListData(items) == [isList |-> TRUE, items |-> items]
NonListData == [isList |-> FALSE, items |-> <<>>]

\* what the search request of resolve_match_id can do: raise, or return data
SearchOutcomes ==
  { [raises |-> TRUE, data |-> NonListData] } \cup
  [raises : {FALSE},
   data : {NonListData, ListData(<<CandSwapped>>),
           ListData(<<CandOther, CandAlBo>>)}]

LiveData(status, sets, games, point) ==
  [status |-> status, sets |-> sets, games |-> games, point |-> point]

LiveRunning  == LiveData(<<"L","i","v","e">>, <<"6","-","4">>, <<"2","-","1">>, <<>>)
LiveFinished == LiveData(<<" ","F","i","n","i","s","h","e","d">>, <<"6","-","4"," ","6","-","3">>, <<>>, <<>>)

\* what the live request of get_live can do: raise, or return data
LiveOutcomes ==
  { [raises |-> TRUE, data |-> LiveRunning] } \cup
  [raises : {FALSE}, data : {LiveRunning, LiveFinished}]

\* ------------------------------------------------------------------------
\* State
\* ------------------------------------------------------------------------
VARIABLES
  REG,          \* the registry dict, in insertion order: <<[key, entry]>>
  entries,      \* the entry dicts ever created, by identity (index)
  cards,        \* the channel's outward messages, by message id
  sending,      \* on_message tasks suspended in channel.send, by entry
  started,      \* the module-level guard _started
  loops,        \* poll_loop tasks created
  https,        \* start_http tasks created
  channelFound, \* client.get_channel(CHANNEL_ID) is not None
  pollPc,       \* where poll_loop stands
  snapshot,     \* list(REG.items()) of the current pass
  cursor,       \* index of the for loop in snapshot
  pending,      \* status_text, score_text, is_final held across the awaits
  lastMsg,      \* what on_message saw, when the last step was on_message
  fetches,      \* get_live calls per entry
  writes,       \* successful outward writes per entry
  passFetches,  \* get_live calls per entry in the current pass
  passFailed,   \* entries whose get_live raised in the current pass
  passWrites,   \* outward writes of poll_loop per entry in the current pass
  readyAgain,   \* the last step was on_ready with the guard already set
  normIn,       \* input of the normalizer run
  normOut,      \* successive results of normalize
  parseIn,      \* input of the parser run
  parseOut,     \* result of extract_bet
  parseDone,    \* the parser run has applied extract_bet
  resIn,        \* input of the resolver run: names, start, provider data
  resOut,       \* result of resolve_match_id, NoId for None
  resDone       \* the resolver run has applied resolve_match_id

mainVars == <<REG, entries, cards, sending, started, loops, https,
              channelFound, pollPc, snapshot, cursor, pending, lastMsg, fetches, writes, passFetches, passFailed,
              passWrites, readyAgain>>
normVars == <<normIn, normOut>>
parseVars == <<parseIn, parseOut, parseDone>>
resVars == <<resIn, resOut, resDone>>
vars == <<mainVars, normVars, parseVars, resVars>>

NoPending == [status_text |-> <<>>, score_text |-> <<>>, is_final |-> FALSE]
NoMsg == [event |-> FALSE, in_channel |-> FALSE, bot |-> FALSE, webhook |-> FALSE,
          literal |-> FALSE, parses |-> FALSE, resolved |-> "n/a",
          api_id |-> NoId]

MainInit ==
  /\ REG = <<>>
  /\ entries = <<>>
  /\ cards = <<>>
  /\ sending = {}
  /\ started = FALSE
  /\ loops = 0
  /\ https = 0
  /\ channelFound \in BOOLEAN
  /\ pollPc = "off"
  /\ snapshot = <<>>
  /\ cursor = 1
  /\ pending = NoPending
  /\ lastMsg = NoMsg
  /\ fetches = <<>>
  /\ writes = <<>>
  /\ passFetches = <<>>
  /\ passFailed = {}
  /\ passWrites = <<>>
  /\ readyAgain = FALSE

NormIdle == normIn = <<>> /\ normOut = <<>>
ParseIdle == parseIn = <<>> /\ parseOut = NoBet /\ parseDone = FALSE
NoResIn == [home |-> <<>>, away |-> <<>>, starts_iso |-> <<>>,
            data |-> NonListData]
ResIdle == resIn = NoResIn /\ resOut = NoId /\ resDone = FALSE

Init == MainInit /\ NormIdle /\ ParseIdle /\ ResIdle

\* ------------------------------------------------------------------------
\* post_or_update
\* ------------------------------------------------------------------------
Dash == <<"-">>
NoMessageId == 0

\* the embed built from the entry and the arguments
Render(entry, status_text, score_text, is_final) ==
  [home   |-> entry.home,
   away   |-> entry.away,
   status |-> IF status_text = <<>> THEN Dash ELSE status_text,
   score  |-> score_text,
   final  |-> is_final]

\* msg.id of the message channel.send creates
NewMessageId == Len(cards) + 1

\* REG[key] = e
DictSet(reg, key, e) ==
  IF \E i \in 1..Len(reg) : reg[i].key = key
  THEN [i \in 1..Len(reg) |->
          IF reg[i].key = key THEN [key |-> key, entry |-> e] ELSE reg[i]]
  ELSE Append(reg, [key |-> key, entry |-> e])

\* no coroutine is between two awaits: get_live and resolve_match_id block
\* the event loop, so other tasks run only while poll_loop is suspended
Suspended == pollPc \notin {"pass", "visit"}

\* the outcomes an awaited call may have: TRUE when it returns, FALSE when
\* it raises
Outcomes == BOOLEAN

RECURSIVE SumSeq(_)
SumSeq(q) == IF q = <<>> THEN 0 ELSE q[1] + SumSeq(Tail(q))

\* get_live calls so far
FetchCount == SumSeq(fetches)

\* ------------------------------------------------------------------------
\* on_ready
\* ------------------------------------------------------------------------
\* the guard left out: every ready event starts the tasks
ShouldStartAlways(st) == TRUE

\* "if not _started"
ShouldStart(st) == ~st

\* a ready event: the first login or a later reconnect
on_ready ==
  /\ Suspended
  /\ IF ShouldStart(started)
     THEN /\ started' = TRUE
          /\ https' = https + 1
          /\ loops' = loops + 1
          /\ pollPc' = "start"
     ELSE UNCHANGED <<started, https, loops, pollPc>>
  /\ readyAgain' = started
  /\ UNCHANGED <<REG, entries, cards, sending, channelFound, snapshot, cursor,
                 pending, fetches, writes, passFetches, passFailed,
                 passWrites>>
  /\ lastMsg' = NoMsg
  /\ UNCHANGED <<normVars, parseVars, resVars>>

\* ------------------------------------------------------------------------
\* on_message
\* ------------------------------------------------------------------------
BetPlacedLit == <<"B","e","t"," ","p","l","a","c","e","d",":">>
ScheduledText == <<"s","c","h","e","d","u","l","e","d">>

\* the test of the author left out
IgnoredOtherChannel(message) == ~message.in_channel

\* the early returns before the parser
Ignored(message) ==
  \/ ~message.in_channel
  \/ (message.bot /\ ~message.webhook)

HasLiteral(content) == Contains(content, BetPlacedLit)

\* the test "if not api_id" left out
ResolveMissNever(api_id) == FALSE

\* "if not api_id": the resolver found nothing
ResolveMiss(api_id) == api_id = NoId

\* an entry created with "final" set
NewEntryFinal(bet, api_id) ==
  [home |-> bet.home, away |-> bet.away, side |-> bet.side,
   odds |-> bet.odds, stake |-> bet.stake, starts |-> bet.starts,
   api_id |-> api_id, message_id |-> 0, final |-> api_id # ""]

\* an entry created without the resolved id
NewEntryNoApi(bet, api_id) ==
  [home |-> bet.home, away |-> bet.away, side |-> bet.side,
   odds |-> bet.odds, stake |-> bet.stake, starts |-> bet.starts,
   api_id |-> "", message_id |-> 0, final |-> FALSE]

\* the entry dict on_message creates
NewEntry(bet, api_id) ==
  [home |-> bet.home, away |-> bet.away, side |-> bet.side,
   odds |-> bet.odds, stake |-> bet.stake, starts |-> bet.starts,
   api_id |-> api_id, message_id |-> NoMessageId, final |-> FALSE]

\* the function f as an explicit table
Table(f) == f @@ <<>>

\* bet = extract_bet(content), for the texts of Messages
BetOf == Table([m \in Messages |-> extract_bet(m.content)])

\* "Bet placed:" in content, for the texts of Messages
LiteralIn == Table([m \in Messages |-> HasLiteral(m.content)])

\* api_id = resolve_match_id(bet["home"], bet["away"], bet["starts"]) for
\* the data the search request returned
ApiIdOf ==
  Table([m \in {x \in Messages : BetOf[x].ok}, search \in SearchOutcomes |->
           resolve_match_id(BetOf[m].home, BetOf[m].away, BetOf[m].starts,
                            search.data)])

\* what an on_message event saw: the message, and what the resolver gave
Seen(message, resolved, api_id) ==
  [event      |-> TRUE,
   in_channel |-> message.in_channel,
   bot        |-> message.bot,
   webhook    |-> message.webhook,
   literal    |-> LiteralIn[message],
   parses     |-> BetOf[message].ok,
   resolved   |-> resolved,
   api_id     |-> api_id]

\* on_message up to its first await (channel.send in post_or_update); the
\* runs modelled take messages until MaxEntries entries have been created
on_message ==
  /\ Suspended
  /\ Len(entries) < MaxEntries
  /\ \E message \in Messages :
       LET bet    == BetOf[message]
           passed == ~Ignored(message) /\ LiteralIn[message] /\ bet.ok
       IN IF ~passed
          THEN /\ lastMsg' = Seen(message, "n/a", NoId)
               /\ UNCHANGED <<entries, sending, fetches, writes, passFetches, passWrites>>
          ELSE \E search \in SearchOutcomes :
                 LET api_id == ApiIdOf[message, search]
                 IN /\ lastMsg' =
                         IF search.raises THEN Seen(message, "error", NoId)
                         ELSE IF api_id = NoId THEN Seen(message, "none", NoId)
                         ELSE Seen(message, "id", api_id)
                    /\ IF search.raises \/ ResolveMiss(api_id)
                       THEN UNCHANGED <<entries, sending, fetches, writes,
                                        passFetches, passWrites>>
                       ELSE /\ entries' = Append(entries, NewEntry(bet, api_id))
                            /\ sending' = sending \cup {Len(entries) + 1}
                            /\ fetches' = Append(fetches, 0)
                            /\ writes' = Append(writes, 0)
                            /\ passFetches' = Append(passFetches, 0)
                            /\ passWrites' = Append(passWrites, 0)
  /\ UNCHANGED <<REG, cards, started, loops, https, channelFound, pollPc,
                 snapshot, cursor, pending, passFailed>>
  /\ readyAgain' = FALSE
  /\ UNCHANGED <<normVars, parseVars, resVars>>

\* channel.send returns: the entry gets its message id and is registered
HandlerSendOk ==
  /\ Suspended
  /\ \E e \in sending :
       /\ cards' = Append(cards, Render(entries[e], ScheduledText, <<>>, FALSE))
       /\ entries' = [entries EXCEPT ![e].message_id = NewMessageId]
       /\ REG' = IF NewMessageId # NoMessageId
                 THEN DictSet(REG, NewMessageId, e) ELSE REG
       /\ writes' = [writes EXCEPT ![e] = @ + 1]
       /\ sending' = sending \ {e}
  /\ UNCHANGED <<started, loops, https, channelFound, pollPc, snapshot,
                 cursor, pending, fetches, passFetches, passFailed, passWrites>>
  /\ lastMsg' = NoMsg
  /\ readyAgain' = FALSE
  /\ UNCHANGED <<normVars, parseVars, resVars>>

\* channel.send raises, the exception is swallowed and the entry registered
\* without the test of its message id
HandlerSendFailRegisters ==
  /\ Suspended
  /\ \E e \in sending :
       /\ sending' = sending \ {e}
       /\ REG' = DictSet(REG, entries[e].message_id, e)
  /\ UNCHANGED <<entries, cards, started, loops, https, channelFound,
                 pollPc, snapshot, cursor, pending, fetches, writes,
                 passFetches, passFailed, passWrites>>
  /\ lastMsg' = NoMsg
  /\ readyAgain' = FALSE
  /\ UNCHANGED <<normVars, parseVars, resVars>>

\* channel.send raises: the exception leaves on_message, nothing is registered
HandlerSendFail ==
  /\ Suspended
  /\ \E e \in sending : sending' = sending \ {e}
  /\ UNCHANGED <<REG, entries, cards, started, loops, https, channelFound,
                 pollPc, snapshot, cursor, pending, fetches, writes, passFetches, passFailed, passWrites>>
  /\ lastMsg' = NoMsg
  /\ readyAgain' = FALSE
  /\ UNCHANGED <<normVars, parseVars, resVars>>

\* ------------------------------------------------------------------------
\* poll_loop
\* ------------------------------------------------------------------------
\* status_text, score_text, is_final = get_live(entry["api_id"]) for the
\* data the live request returned
LiveOf == Table([live \in LiveOutcomes |-> get_live(live.data)])

\* the entry the for loop is at
CurEntry == snapshot[cursor].entry

\* the test of the final flag left out
SkipEntryNever(entry) == FALSE

\* "if entry.get('final'): continue"
SkipEntry(entry) == entry.final

\* "break" in place of "continue"
AfterFetchFailBreak(cur, snap) == Len(snap) + 1

\* the iteration started over on the same entry
AfterFetchFailRetry(cur, snap) == cur

\* where the for loop goes after get_live raised: "continue"
AfterFetchFail(cur, snap) == cur + 1

\* "if is_final: entry['final'] = True"
FinalAfter(entry, is_final) == IF is_final THEN TRUE ELSE entry.final

\* wait_until_ready returned; the channel lookup
PollStart ==
  /\ pollPc = "start"
  /\ pollPc' = IF channelFound THEN "pass" ELSE "returned"
  /\ UNCHANGED <<REG, entries, cards, sending, started, loops, https,
                 channelFound, snapshot, cursor, pending, fetches, writes, passFetches,
                 passFailed, passWrites>>
  /\ lastMsg' = NoMsg
  /\ readyAgain' = FALSE
  /\ UNCHANGED <<normVars, parseVars, resVars>>

\* a pass of the while loop begins: the for loop takes list(REG.items());
\* the client stays open in the runs modelled, so the while test is true
PollPass ==
  /\ pollPc \in {"pass", "sleep"}
  /\ snapshot' = REG
  /\ cursor' = 1
  /\ pollPc' = "visit"
  /\ passFetches' = [e \in 1..Len(entries) |-> 0]
  /\ passFailed' = {}
  /\ passWrites' = [e \in 1..Len(entries) |-> 0]
  /\ UNCHANGED <<REG, entries, cards, sending, started, loops, https,
                 channelFound, pending, fetches, writes>>
  /\ lastMsg' = NoMsg
  /\ readyAgain' = FALSE
  /\ UNCHANGED <<normVars, parseVars, resVars>>

\* one iteration of the for loop up to its first await; the runs modelled
\* make at most MaxFetches calls of get_live
PollVisit ==
  /\ pollPc = "visit"
  /\ cursor <= Len(snapshot)
  /\ IF SkipEntry(entries[CurEntry])
     THEN /\ cursor' = cursor + 1
          /\ UNCHANGED <<pollPc, pending, fetches, passFetches, passFailed>>
     ELSE \E live \in LiveOutcomes :
            /\ FetchCount < MaxFetches
            /\ fetches' = [fetches EXCEPT ![CurEntry] = @ + 1]
            /\ passFetches' = [passFetches EXCEPT ![CurEntry] = @ + 1]
            /\ IF live.raises
               THEN /\ cursor' = AfterFetchFail(cursor, snapshot)
                    /\ passFailed' = passFailed \cup {CurEntry}
                    /\ UNCHANGED <<pollPc, pending>>
               ELSE /\ pending' = LiveOf[live]
                    /\ pollPc' = IF entries[CurEntry].message_id = NoMessageId
                                 THEN "send" ELSE "fetch_message"
                    /\ UNCHANGED <<cursor, passFailed>>
  /\ UNCHANGED <<REG, entries, cards, sending, started, loops, https,
                 channelFound, snapshot, writes, passWrites>>
  /\ lastMsg' = NoMsg
  /\ readyAgain' = FALSE
  /\ UNCHANGED <<normVars, parseVars, resVars>>

\* the for loop is exhausted: await asyncio.sleep(POLL_SECS)
PollPassEnd ==
  /\ pollPc = "visit"
  /\ cursor > Len(snapshot)
  /\ pollPc' = "sleep"
  /\ UNCHANGED <<REG, entries, cards, sending, started, loops, https,
                 channelFound, snapshot, cursor, pending, fetches, writes, passFetches,
                 passFailed, passWrites>>
  /\ lastMsg' = NoMsg
  /\ readyAgain' = FALSE
  /\ UNCHANGED <<normVars, parseVars, resVars>>

\* post_or_update returned to the loop: the final flag, the next iteration
Published(e) ==
  /\ writes' = [writes EXCEPT ![e] = @ + 1]
  /\ passWrites' = [passWrites EXCEPT ![e] = @ + 1]
  /\ cursor' = cursor + 1
  /\ pollPc' = "visit"
  /\ pending' = NoPending

\* await channel.fetch_message(entry["message_id"]) returns or raises
PollFetchMessage ==
  /\ pollPc = "fetch_message"
  /\ \E ok \in Outcomes :
       /\ pollPc' = IF ok THEN "edit" ELSE "send"
  /\ UNCHANGED <<REG, entries, cards, sending, started, loops, https,
                 channelFound, snapshot, cursor, pending, fetches, writes, passFetches,
                 passFailed, passWrites>>
  /\ lastMsg' = NoMsg
  /\ readyAgain' = FALSE
  /\ UNCHANGED <<normVars, parseVars, resVars>>

\* the edit left out when the rendering equals what the card shows
PollEditIfChanged ==
  /\ pollPc = "edit"
  /\ \E ok \in Outcomes :
       LET embed == Render(entries[CurEntry], pending.status_text,
                           pending.score_text, pending.is_final)
       IN IF ok /\ embed = cards[entries[CurEntry].message_id]
          THEN /\ entries' = [entries EXCEPT ![CurEntry].final =
                                FinalAfter(entries[CurEntry], pending.is_final)]
               /\ cursor' = cursor + 1
               /\ pollPc' = "visit"
               /\ pending' = NoPending
               /\ UNCHANGED <<cards, writes, passWrites>>
          ELSE IF ok
          THEN /\ cards' = [cards EXCEPT ![entries[CurEntry].message_id] = embed]
               /\ entries' = [entries EXCEPT ![CurEntry].final =
                                FinalAfter(entries[CurEntry], pending.is_final)]
               /\ Published(CurEntry)
          ELSE /\ pollPc' = "send"
               /\ UNCHANGED <<cards, entries, writes, passWrites, cursor,
                              pending>>
  /\ UNCHANGED <<REG, sending, started, loops, https, channelFound, snapshot,
                 fetches, passFetches, passFailed>>
  /\ lastMsg' = NoMsg
  /\ readyAgain' = FALSE
  /\ UNCHANGED <<normVars, parseVars, resVars>>

\* await msg.edit(embed=embed) returns or raises
PollEdit ==
  /\ pollPc = "edit"
  /\ \E ok \in Outcomes :
       IF ok
       THEN /\ cards' = [cards EXCEPT ![entries[CurEntry].message_id] =
                           Render(entries[CurEntry], pending.status_text,
                                  pending.score_text, pending.is_final)]
            /\ entries' = [entries EXCEPT ![CurEntry].final =
                             FinalAfter(entries[CurEntry], pending.is_final)]
            /\ Published(CurEntry)
       ELSE /\ pollPc' = "send"
            /\ UNCHANGED <<cards, entries, writes, passWrites, cursor,
                         pending>>
  /\ UNCHANGED <<REG, sending, started, loops, https, channelFound, snapshot,
                 fetches, passFetches,
                 passFailed>>
  /\ lastMsg' = NoMsg
  /\ readyAgain' = FALSE
  /\ UNCHANGED <<normVars, parseVars, resVars>>

\* await channel.send(embed=embed) of the fallback returns or raises; a
\* raise leaves post_or_update and poll_loop: the task ends
PollSend ==
  /\ pollPc = "send"
  /\ \E ok \in Outcomes :
       IF ok
       THEN /\ cards' = Append(cards,
                          Render(entries[CurEntry], pending.status_text,
                                 pending.score_text, pending.is_final))
            /\ entries' = [entries EXCEPT
                             ![CurEntry].message_id = NewMessageId,
                             ![CurEntry].final =
                                FinalAfter(entries[CurEntry], pending.is_final)]
            /\ Published(CurEntry)
       ELSE /\ pollPc' = "crashed"
            /\ UNCHANGED <<cards, entries, writes, passWrites, cursor,
                         pending>>
  /\ UNCHANGED <<REG, sending, started, loops, https, channelFound, snapshot,
                 fetches, passFetches,
                 passFailed>>
  /\ lastMsg' = NoMsg
  /\ readyAgain' = FALSE
  /\ UNCHANGED <<normVars, parseVars, resVars>>

Next ==
  \/ on_ready
  \/ on_message
  \/ HandlerSendOk
  \/ HandlerSendFail
  \/ PollStart
  \/ PollPass
  \/ PollVisit
  \/ PollPassEnd
  \/ PollFetchMessage
  \/ PollEdit
  \/ PollSend

Spec == Init /\ [][Next]_vars

\* ------------------------------------------------------------------------
\* Runs of the pure functions on bounded inputs
\* ------------------------------------------------------------------------
\* the handlers stand still while a pure function is run
MainIdle == MainInit /\ channelFound

NormAlphabet == {"a", "B", " ", "1", "-"}

\* all texts over NormAlphabet of at most MaxNormLen characters
NormInputs == UNION {[1..n -> NormAlphabet] : n \in 0..MaxNormLen}

NormInit ==
  /\ MainIdle /\ ParseIdle /\ ResIdle
  /\ normIn \in NormInputs
  /\ normOut = <<>>

\* normalize applied to the input, then to its own result
NormApply ==
  /\ Len(normOut) < 2
  /\ normOut' = Append(normOut,
                       normalize(IF normOut = <<>> THEN normIn
                                 ELSE normOut[Len(normOut)]))
  /\ UNCHANGED <<mainVars, normIn, parseVars, resVars>>

NormNext == NormApply

SpecNorm == NormInit /\ [][NormNext]_vars

RECURSIVE Concat(_)
Concat(ss) == IF ss = <<>> THEN <<>> ELSE ss[1] \o Concat(Tail(ss))

ParseTokens == { <<"a">>, <<" ">>, <<"v","s">>, <<" ","V","s"," ">> }
ParsePrefixes == { <<>>, <<"*">> }
ParseLiterals == { BetPlacedLit \o <<" ">>,
                   <<"B","E","T"," ","p","l","a","c","e","d",":">> }
ParseSuffixes == { <<>>, <<"\n","S","i","d","e","=","h","=","1">> }

\* messages: an optional megaphone, the literal, at most MaxToks tokens,
\* an optional key=value line
ParseInputs ==
  { pre \o lit \o Concat(toks) \o suf :
      pre \in ParsePrefixes, lit \in ParseLiterals,
      toks \in UNION {[1..n -> ParseTokens] : n \in 0..MaxToks},
      suf \in ParseSuffixes }

ParseInit ==
  /\ MainIdle /\ NormIdle /\ ResIdle
  /\ parseIn \in ParseInputs
  /\ parseOut = NoBet
  /\ parseDone = FALSE

ParseApply ==
  /\ ~parseDone
  /\ parseOut' = extract_bet(parseIn)
  /\ parseDone' = TRUE
  /\ UNCHANGED <<mainVars, normVars, parseIn, resVars>>

ParseNext == ParseApply

SpecParse == ParseInit /\ [][ParseNext]_vars

\* ------------------------------------------------------------------------
\* runs of resolve_match_id on provider result lists
\* ------------------------------------------------------------------------
ResHome == <<"A","l">>
ResAway == <<"B","o">>
ResStarts == { <<>>, <<"1","T","0","9","Z">> }

\* player names of a candidate: matching, matching swapped, and matching
\* one announced name only
ResNames == { << <<"A","l"," ","S","m","i","t","h">>, <<"B","o"," ","J","o","n","e","s">> >>,
              << <<"B","O">>, <<"a","l">> >>,
              << <<"C","y">>, <<"A","l">> >> }

\* start times of a candidate: absent, one hour before and after the
\* announced start, six days after it, and the announced hour without zone
ResTimes == { <<>>, <<"1","T","0","8","Z">>, <<"1","T","1","0","Z">>,
              <<"7","T","0","9","Z">>, <<"1","T","0","9">> }

ResStatuses == { <<"F","i","n","i","s","h","e","d">>, <<"L","i","v","e">> }

ResShapes == ResNames \X ResTimes \X ResStatuses

\* the provider's list: candidates of the given shapes, ids by position
ResList(shapes) ==
  [i \in 1..Len(shapes) |->
     Candidate(ToString(i), shapes[i][1][1], shapes[i][1][2],
               shapes[i][2], shapes[i][3])]

ResData ==
  {NonListData} \cup
  { ListData(ResList(shapes)) :
      shapes \in UNION {[1..n -> ResShapes] : n \in 0..MaxCands} }

ResInputs ==
  [home : {ResHome}, away : {ResAway}, starts_iso : ResStarts, data : ResData]

ResInit ==
  /\ MainIdle /\ NormIdle /\ ParseIdle
  /\ resIn \in ResInputs
  /\ resOut = NoId
  /\ resDone = FALSE

ResApply ==
  /\ ~resDone
  /\ resOut' = resolve_match_id(resIn.home, resIn.away, resIn.starts_iso,
                                resIn.data)
  /\ resDone' = TRUE
  /\ UNCHANGED <<mainVars, normVars, parseVars, resIn>>

ResNext == ResApply

SpecResolve == ResInit /\ [][ResNext]_vars

\* ------------------------------------------------------------------------
\* Claims about the pure functions
\* ------------------------------------------------------------------------
\* C9: the normalizer is idempotent: normalizing a normalized text gives
\* the same text, for every input text.
NormalizeIdempotent ==
  Len(normOut) = 2 => normOut[2] = normOut[1]

\* the text of the first non-blank line after its first "Bet placed:"
\* (in any letter case), trimmed
AfterLiteral(msg) ==
  LET line == BetLines(msg)[1]
      p == SetMin({i \in 1..Len(line) : LitAt(line, i)})
  IN Strip(SubSeq(line, p + Len(BetPlacedLower), Len(line)))

\* the standalone " vs " of a text: index of the whitespace before a "vs"
\* that has whitespace after it, with text on both sides
VsSplits(t) ==
  {i \in 2..(Len(t) - 3) :
     /\ IsSpace(t[i]) /\ IsSpace(t[i + 3])
     /\ Lower(SubSeq(t, i + 1, i + 2)) = VsLower
     /\ Strip(SubSeq(t, 1, i - 1)) # <<>>
     /\ Strip(SubSeq(t, i + 3, Len(t))) # <<>>}

\* a first line "Bet placed: A vs B" with non-empty A and B
WellFormed(msg) ==
  /\ BetLines(msg) # <<>>
  /\ \E i \in 1..Len(BetLines(msg)[1]) : LitAt(BetLines(msg)[1], i)
  /\ VsSplits(AfterLiteral(msg)) # {}

SplitAt(t, i) ==
  [home |-> Strip(SubSeq(t, 1, i - 1)),
   away |-> Strip(SubSeq(t, i + 3, Len(t)))]

\* C10 as stated: home and away are the two sides of the last standalone
\* " vs " of the first line, trimmed.
ParserSplitsOnLastVs ==
  (parseDone /\ WellFormed(parseIn)) =>
     LET t == AfterLiteral(parseIn)
         ab == SplitAt(t, SetMax(VsSplits(t)))
     IN parseOut.ok /\ parseOut.home = ab.home /\ parseOut.away = ab.away

\* C10 amended: home and away are the two sides of the first standalone
\* " vs " of the first line, trimmed; home is A whenever A holds no
\* standalone " vs " itself.
ParserSplitsOnFirstVs ==
  (parseDone /\ WellFormed(parseIn)) =>
     LET t == AfterLiteral(parseIn)
         ab == SplitAt(t, SetMin(VsSplits(t)))
     IN parseOut.ok /\ parseOut.home = ab.home /\ parseOut.away = ab.away

\* a parsed line with more than one standalone " vs "
ParserSplitsOnFirstVsWitness ==
  /\ parseDone /\ WellFormed(parseIn)
  /\ Cardinality(VsSplits(AfterLiteral(parseIn))) >= 2
  /\ parseOut.ok

\* ------------------------------------------------------------------------
\* Claims about the registry and the reconciliation loop
\* ------------------------------------------------------------------------
EntryIds == 1..Len(entries)

\* the entries the registry holds
Registered == {REG[i].entry : i \in 1..Len(REG)}

\* C1: once an entry is final, no step fetches live state for it, writes
\* its card or changes its fields: its fetch and write counts stay as they
\* are.
FinalNeverPolledAgain ==
  [][\A e \in EntryIds :
       entries[e].final =>
         /\ fetches'[e] = fetches[e]
         /\ writes'[e] = writes[e]
         /\ entries'[e] = entries[e]
         /\ cards'[entries[e].message_id] = cards[entries[e].message_id]]_vars

\* a pass that began after an entry became final has run to its end
FinalNeverPolledAgainWitness ==
  /\ pollPc = "sleep"
  /\ \E i \in 1..Len(snapshot) :
       /\ entries[snapshot[i].entry].final
       /\ passFetches[snapshot[i].entry] = 0
       /\ fetches[snapshot[i].entry] >= 1

\* C2: every registry key is the outward message id stored in the entry it
\* maps to, also after the edit fallback has published a new card.
RegistryKeyIsOutwardId ==
  \A i \in 1..Len(REG) : REG[i].key = entries[REG[i].entry].message_id

\* C3: a get_live failure skips only that entry for that pass: the step
\* changes nothing but the loop position, the entry stays registered and
\* not final, every entry of the snapshot that is not final has been
\* fetched when the pass ends, and the next pass takes the whole registry
\* again.
FetchFailureSkipsOnlyThatEntry ==
  /\ [](pollPc = "sleep" =>
          \A i \in 1..Len(snapshot) :
             \/ entries[snapshot[i].entry].final
             \/ passFetches[snapshot[i].entry] >= 1)
  /\ [](\A e \in passFailed : ~entries[e].final /\ e \in Registered)
  /\ [][(passFailed' # passFailed /\ passFailed \subseteq passFailed') =>
          /\ REG' = REG /\ entries' = entries /\ cards' = cards
          /\ writes' = writes /\ snapshot' = snapshot
          /\ pollPc' = "visit"
          /\ cursor' = cursor + 1]_vars
  /\ [][(pollPc \in {"pass", "sleep"} /\ pollPc' = "visit") =>
          /\ snapshot' = REG
          /\ \A i \in 1..Len(snapshot) : snapshot'[i] = snapshot[i]]_vars

\* in one pass an earlier entry's fetch failed and a later entry was
\* fetched and republished
FetchFailureSkipsOnlyThatEntryWitness ==
  /\ pollPc = "sleep"
  /\ \E i, j \in 1..Len(snapshot) :
       /\ i < j
       /\ snapshot[i].entry \in passFailed
       /\ snapshot[j].entry \notin passFailed
       /\ passFetches[snapshot[j].entry] = 1
       /\ writes[snapshot[j].entry] = 2

\* C4: no publish or edit failure stops the loop: poll_loop never ends
\* because an edit and its fallback publish both failed.
LoopSurvivesPublishFailure == pollPc # "crashed"

\* C5: isFinal starts false and only ever goes from false to true.
FinalMonotone ==
  [][/\ Len(entries') >= Len(entries)
     /\ \A e \in EntryIds : entries[e].final => entries'[e].final
     /\ \A e \in (Len(entries) + 1)..Len(entries') : ~entries'[e].final]_vars

\* an entry is final after a republish while another entry is still polled
FinalMonotoneWitness ==
  \E e, f \in EntryIds :
     /\ entries[e].final /\ writes[e] >= 2
     /\ ~entries[f].final /\ fetches[f] >= 1

\* C6: an entry is registered only after its initial card was published:
\* every registered entry has an outward message id and a card, and no
\* entry without them has been fetched, written or taken into a pass.
RegisteredOnlyAfterPublish ==
  /\ \A i \in 1..Len(REG) :
       /\ REG[i].key # NoMessageId
       /\ entries[REG[i].entry].message_id # NoMessageId
       /\ entries[REG[i].entry].message_id <= Len(cards)
       /\ writes[REG[i].entry] >= 1
       /\ REG[i].entry \notin sending
  /\ \A e \in EntryIds :
       (e \in sending \/ entries[e].message_id = NoMessageId) =>
          /\ fetches[e] = 0
          /\ writes[e] = 0
          /\ e \notin Registered
          /\ \A i \in 1..Len(snapshot) : snapshot[i].entry # e

\* a handler waits for its initial publish while the loop is inside a pass
RegisteredOnlyAfterPublishWitness ==
  /\ sending # {}
  /\ pollPc \in {"fetch_message", "edit", "send"}

\* C7: when the resolver returns nothing or raises, on_message leaves the
\* registry as it is, creates no entry and publishes nothing.
ResolutionMissCreatesNothing ==
  [][(lastMsg'.event /\ lastMsg'.resolved \in {"none", "error"}) =>
        /\ REG' = REG
        /\ entries' = entries
        /\ cards' = cards
        /\ sending' = sending
        /\ writes' = writes]_vars

\* an announcement was parsed and its resolution found nothing, while the
\* registry holds an entry
ResolutionMissCreatesNothingWitness ==
  /\ lastMsg.event /\ lastMsg.parses
  /\ lastMsg.resolved = "none"
  /\ REG # <<>>

\* C8 as stated: every announcement the resolver gave an id for has, once
\* its handler is through, exactly one registry entry.
ResolvedAnnouncementRegistered ==
  \A e \in EntryIds :
     e \notin sending => Cardinality({i \in 1..Len(REG) : REG[i].entry = e}) = 1

\* C8 amended: a resolved announcement creates one entry with the resolved
\* id, not final, and one pending initial publish; when that publish
\* returns, one card with status "scheduled" exists and the entry is the
\* one new registry entry under the card's id; when it raises, no card and
\* no registry entry is added.
InitialCardThenEntry ==
  [][/\ (lastMsg'.event /\ lastMsg'.resolved = "id") =>
          /\ Len(entries') = Len(entries) + 1
          /\ entries'[Len(entries')].api_id = lastMsg'.api_id
          /\ entries'[Len(entries')].api_id # NoId
          /\ ~entries'[Len(entries')].final
          /\ sending' = sending \cup {Len(entries')}
          /\ REG' = REG /\ cards' = cards
     /\ \A e \in sending :
          e \notin sending' =>
            \/ /\ cards' = Append(cards, Render(entries[e], ScheduledText,
                                                <<>>, FALSE))
               /\ REG' = Append(REG, [key |-> Len(cards'), entry |-> e])
               /\ entries'[e] = [entries[e] EXCEPT !.message_id = Len(cards')]
               /\ writes'[e] = 1
            \/ /\ cards' = cards /\ REG' = REG /\ entries' = entries
               /\ writes' = writes]_vars

\* a handler's initial publish has returned: the entry is registered with
\* its "scheduled" card and has not been polled yet
InitialCardThenEntryWitness ==
  \E i \in 1..Len(REG) :
     /\ writes[REG[i].entry] = 1 /\ fetches[REG[i].entry] = 0
     /\ cards[REG[i].key].status = ScheduledText
     /\ ~cards[REG[i].key].final
     /\ entries[REG[i].entry].api_id = "m1"


\* ------------------------------------------------------------------------
\* Claims about resolve_match_id (SpecResolve)
\* ------------------------------------------------------------------------
ResItems == resIn.data.items
ResIdx == 1..Len(ResItems)

\* the announced names are contained in the candidate's names, home in one
\* and away in the other, all normalized
NamesMatch(m) ==
  LET h == normalize(resIn.home)
      a == normalize(resIn.away)
      n1 == normalize(m.player1)
      n2 == normalize(m.player2)
  IN \/ Contains(n1, h) /\ Contains(n2, a)
     \/ Contains(n2, h) /\ Contains(n1, a)

Chosen == { i \in ResIdx : ResItems[i].id = resOut }

\* C11: the resolver returns only the id of a candidate whose names contain
\* both announced names, whatever bonus another candidate earns, and returns
\* none when no candidate does
ResolverPicksOnlyEligible ==
  resDone =>
    /\ resOut # NoId => \E i \in Chosen : NamesMatch(ResItems[i])
    /\ (\A i \in ResIdx : ~NamesMatch(ResItems[i])) => resOut = NoId

\* an ineligible candidate with a higher score than the returned one
ResolverPicksOnlyEligibleWitness ==
  /\ resDone /\ resOut # NoId
  /\ \E i \in ResIdx, j \in Chosen :
       /\ ~NamesMatch(ResItems[i])
       /\ CandidateScore(resIn.starts_iso, ResItems[i])
            > CandidateScore(resIn.starts_iso, ResItems[j])

EligibleIdx == { i \in ResIdx : NamesMatch(ResItems[i]) }
ScoreOf(i) == CandidateScore(resIn.starts_iso, ResItems[i])
TopIdx == { i \in EligibleIdx : \A j \in EligibleIdx : ScoreOf(j) <= ScoreOf(i) }

\* C12: the resolver returns the eligible candidate with the highest score,
\* and of several with the highest score the first of the provider's list
ResolverPicksFirstBest ==
  resDone =>
    resOut = IF EligibleIdx = {} THEN NoId ELSE ResItems[SetMin(TopIdx)].id

\* two eligible candidates tie for the highest score and the earlier one is
\* returned
ResolverPicksFirstBestWitness ==
  /\ resDone
  /\ Cardinality(TopIdx) >= 2
  /\ resOut = ResItems[SetMin(TopIdx)].id

\* both candidates carry a start time as far from the announced start as
\* the other's, before or after it
Equidistant(i, j) ==
  LET st == ParseTime(resIn.starts_iso)
      ti == ParseTime(ResItems[i].start_time)
      tj == ParseTime(ResItems[j].start_time)
  IN /\ st.ok /\ ti.ok /\ tj.ok
     /\ ti.aware = st.aware /\ tj.aware = st.aware
     /\ Abs(ti.hours - st.hours) = Abs(tj.hours - st.hours)

\* C16: the temporal bonus depends only on the absolute distance between
\* the announced start and the candidate's start: two eligible candidates
\* of the same status that lie equally far before and after the announced
\* start get the same score
SymmetricTimesSameScore ==
  resDone =>
    \A i \in EligibleIdx, j \in EligibleIdx :
      ResItems[i].status = ResItems[j].status /\ Equidistant(i, j)
        => ScoreOf(i) = ScoreOf(j)

\* ------------------------------------------------------------------------
\* Claims about the reconciliation passes and the handlers (Spec)
\* ------------------------------------------------------------------------
\* C14: within one pass no entry is fetched more than once, whatever the
\* handlers register and whatever the fallback does to an entry's message
\* id while the pass is suspended
PassFetchesOnce ==
  \A e \in EntryIds : passFetches[e] <= 1

\* an entry of the snapshot was fetched once in the pass, and during the
\* pass its card was replaced by the fallback and a handler registered a
\* further entry
PassFetchesOnceWitness ==
  /\ pollPc = "visit"
  /\ Len(REG) > Len(snapshot)
  /\ \E i \in 1..Len(snapshot) :
       LET e == snapshot[i].entry
       IN /\ passFetches[e] = 1
          /\ fetches[e] = 1
          /\ entries[e].message_id # snapshot[i].key

\* C13: a terminal status fetched for an entry is written to its card, once
\* and as the entry's last write, also through the fallback: the loop never
\* holds a fetched terminal status without being on its way to write it
TerminalFetchReachesCard ==
  pending.is_final => pollPc \in {"fetch_message", "edit", "send"}

\* the entry at index i of the snapshot was fetched with success in the
\* current pass and the loop has left its iteration
FetchedAndLeft(i) ==
  LET e == snapshot[i].entry
  IN /\ passFetches[e] = 1
     /\ e \notin passFailed
     /\ ~(cursor = i /\ pollPc \in {"fetch_message", "edit", "send"})

\* C15: in a pass every successful live fetch of an entry is followed by
\* exactly one outward write of the entry's card
FetchThenOneWrite ==
  \A i \in 1..Len(snapshot) :
    FetchedAndLeft(i) => passWrites[snapshot[i].entry] = 1

\* C15, amended: every successful live fetch is followed by one publish of
\* the card, whatever the card shows; the publish makes exactly one outward
\* write, except that it makes none when the edit and the fallback publish
\* both raise, which ends the loop in that iteration
FetchThenOnePublish ==
  \A i \in 1..Len(snapshot) :
    LET e == snapshot[i].entry
    IN /\ passWrites[e] <= 1
       /\ passWrites[e] = 1 => passFetches[e] = 1 /\ e \notin passFailed
       /\ FetchedAndLeft(i) =>
            IF pollPc = "crashed" /\ cursor = i
            THEN passWrites[e] = 0
            ELSE passWrites[e] = 1

\* an entry's card was written in the pass although the fetched state was
\* the one the card showed already
FetchThenOnePublishWitness ==
  \E i \in 1..Len(snapshot) :
    LET e == snapshot[i].entry
    IN /\ FetchedAndLeft(i)
       /\ passWrites[e] = 1
       /\ writes[e] >= 3
       /\ ~cards[entries[e].message_id].final

\* C17: whatever number of ready events arrive, at most one reconciliation
\* loop and at most one liveness server are started
TasksStartedOnce ==
  /\ loops <= 1
  /\ https <= 1
  /\ started <=> loops = 1 /\ https = 1

\* a ready event arrived after the tasks were started, while the loop was
\* in a pass with an entry
TasksStartedOnceWitness ==
  /\ readyAgain
  /\ loops = 1 /\ https = 1
  /\ pollPc \in {"fetch_message", "edit", "send"}

\* the message on_message saw was not for it: another channel, or a bot
\* author without webhook id
Foreign(m) == ~m.in_channel \/ (m.bot /\ ~m.webhook)

\* C19: every message of the channel from a user or a webhook that the
\* parser accepts, in whatever letter case its literal is written, goes on
\* to resolution
ParsedMessageReachesResolution ==
  lastMsg.event /\ ~Foreign(lastMsg) /\ lastMsg.parses
    => lastMsg.resolved # "n/a"

\* C20: a message from a bot without webhook id, or from another channel,
\* makes on_message resolve nothing, publish nothing and change neither
\* the entries nor the registry; the registry never holds more entries
\* than announcements were accepted
ForeignMessageChangesNothing ==
  /\ [](Len(REG) <= Len(entries))
  /\ [][lastMsg'.event /\ Foreign(lastMsg')
          => /\ lastMsg'.resolved = "n/a"
             /\ UNCHANGED <<REG, entries, cards, sending, writes>>]_vars

\* a bot's message carrying an announcement the parser accepts arrived
\* after a card was published and registered
ForeignMessageChangesNothingWitness ==
  /\ lastMsg.event /\ lastMsg.bot /\ ~lastMsg.webhook
  /\ lastMsg.literal /\ lastMsg.parses
  /\ Len(REG) >= 1

\* C18: a registered entry that is not final goes on being polled, so that
\* it becomes final once the provider reports a terminal status and the
\* calls succeed: the loop has not ended while such an entry exists
NonFinalEntryKeepsBeingPolled ==
  \A e \in Registered : ~entries[e].final => pollPc # "crashed"

====
